---- MODULE Spec2Model ----
(***************************************************************************)
(* Shelly Smart Night Heater, script.js.  The file holds the two versions  *)
(* of the script, v4.2 (lines 1-220) and v5.0 (lines 222-498); the model   *)
(* runs either of them, chosen by `version`.                               *)
(*                                                                         *)
(* Units.  A time of day "HH:MM" is the pair <<h, m>>.  Temperatures are   *)
(* fixed-point, in 1/100 degree C; SLOPE is in 1/10 hour per degree C.     *)
(* Durations are whole seconds, as in the script.                          *)
(***************************************************************************)
EXTENDS Integers, Sequences, FiniteSets, TLC

\* ------------------------------------------------------------------ bounds
\* Decision cycles one run may start.
MaxCycles == 2
\* The run covers the days 0 .. MaxDay.
MaxDay == 1
\* dailyCheck callbacks that may fall into one minute.
MaxTicksPerMinute == 2

\* ------------------------------------------------- CONFIG, fixed values
START_TEMP == 1500
SLOPE == 5
MAX_RUNTIME_HOURS == 8
FALLBACK_HOURS_Q1 == 6
FALLBACK_HOURS_Q2 == 2
FALLBACK_HOURS_Q3 == 0
FALLBACK_HOURS_Q4 == 5

DaySeconds == 24 * 3600

\* ------------------------------------------- CONFIG, values the run varies
DefaultWindow == [start |-> <<22, 0>>, end |-> <<6, 0>>]
DayWindow == [start |-> <<1, 0>>, end |-> <<5, 0>>]
LongWindow == [start |-> <<20, 0>>, end |-> <<6, 0>>]
DefaultFetchTime == <<19, 0>>
ResetTime == <<0, 1>>
AllSwitches == {0, 1}

DefaultFallbackHours ==
    << FALLBACK_HOURS_Q1, FALLBACK_HOURS_Q2, FALLBACK_HOURS_Q3, FALLBACK_HOURS_Q4 >>

ConfigWith(version, testMode, ids, window, fetchTime, fallbackHours) ==
    [ version |-> version, IS_TEST_MODE |-> testMode, SWITCH_IDS |-> ids,
      window |-> window, DATA_FETCH_TIME |-> fetchTime,
      FALLBACK_HOURS |-> fallbackHours ]

\* Fallback hours with a first quarter above MAX_RUNTIME_HOURS.
LongFallbackHours == << 10, 2, 0, 5 >>

Config(version, testMode, ids, window, fetchTime) ==
    ConfigWith(version, testMode, ids, window, fetchTime, DefaultFallbackHours)

\* The configurations checked: each of one switch and two, a window that
\* wraps past midnight and one that does not, the shipped fetch time and
\* "00:01", production and test mode, under both versions of the script;
\* and, for each version, fallback hours above MAX_RUNTIME_HOURS (for v4.2
\* with a window as long).
\* dailyCheck, the only reader of DATA_FETCH_TIME besides the v4.2 cron
\* expression, exists in v5.0 production mode only.
Configs ==
    { Config("v50", FALSE, <<0, 1>>, DefaultWindow, DefaultFetchTime),
      Config("v50", FALSE, <<0>>, DayWindow, DefaultFetchTime),
      Config("v50", FALSE, <<0>>, DefaultWindow, ResetTime),
      Config("v50", TRUE, <<0>>, DefaultWindow, DefaultFetchTime),
      Config("v42", FALSE, <<0, 1>>, DefaultWindow, DefaultFetchTime),
      Config("v42", FALSE, <<0>>, DayWindow, DefaultFetchTime),
      Config("v42", TRUE, <<0>>, DefaultWindow, DefaultFetchTime),
      Config("v42", TRUE, <<0>>, DayWindow, DefaultFetchTime),
      ConfigWith("v50", FALSE, <<0>>, DefaultWindow, DefaultFetchTime,
                 LongFallbackHours),
      ConfigWith("v42", FALSE, <<0>>, LongWindow, DefaultFetchTime,
                 LongFallbackHours) }

\* ------------------------------------------------------------ environment
\* The minutes of a day the device clock is observed at, in order.
ClockTimes == << <<0, 1>>, <<0, 2>>, <<19, 0>> >>
\* Average forecast temperatures (1/100 degree C) a fetch may deliver.
Temps == { 1600, 1499, -500 }
\* Months the status query may report.
Months == { 1, 7 }
\* The ways a forecast fetch fails: err_code # 0, res.code # 200,
\* JSON.parse throws, fewer than 24 values at indices 24..47.
FetchFailures == { "transport", "non200", "unparseable", "short" }
FetchOutcomes == { "ok" } \cup FetchFailures

NoTemp == -999
NoDuration == -1

\* -------------------------------------------------------- helper functions
timeToSeconds(timeStr) == (timeStr[1] * 3600) + (timeStr[2] * 60)

secondsToTime(seconds) == << seconds \div 3600, (seconds % 3600) \div 60 >>

\* The remainder of JavaScript's %, which takes the sign of the dividend.
JsRem(a, b) == IF a >= 0 THEN a % b ELSE -((-a) % b)

\* Math.round(n / d) for d > 0: halves round towards +infinity.
RoundDiv(n, d) == (2 * n + d) \div (2 * d)

\* calculateChargingDuration without the cap at MAX_RUNTIME_HOURS.
calculateChargingDurationUncapped(avgTemp, startTemp, slope, maxHours) ==
    LET raw == IF avgTemp < startTemp THEN (startTemp - avgTemp) * slope ELSE 0
    IN  RoundDiv((IF raw < 0 THEN 0 ELSE raw) * 3600, 1000)

\* The value calculateChargingDuration stores in nextChargingDurationSeconds.
\* `hours` is kept as a count of 1/1000 hour (avgTemp in 1/100 degree C,
\* slope in 1/10 hour per degree C).
calculateChargingDuration(avgTemp, startTemp, slope, maxHours) ==
    LET raw == IF avgTemp < startTemp THEN (startTemp - avgTemp) * slope ELSE 0
        capped == IF raw > maxHours * 1000 THEN maxHours * 1000 ELSE raw
        hours == IF capped < 0 THEN 0 ELSE capped
    IN  RoundDiv(hours * 3600, 1000)

ChargingDurationSeconds(avgTemp) ==
    calculateChargingDuration(avgTemp, START_TEMP, SLOPE, MAX_RUNTIME_HOURS)

\* The cascade of comparisons with one boundary moved: April counts as Q1.
FallbackHoursShifted(month, q) ==
    IF month <= 4 THEN q[1]
    ELSE IF month <= 6 THEN q[2]
    ELSE IF month <= 9 THEN q[3]
    ELSE q[4]

\* q = << FALLBACK_HOURS_Q1, .., FALLBACK_HOURS_Q4 >>
FallbackHours(month, q) ==
    IF month <= 3 THEN q[1]
    ELSE IF month <= 6 THEN q[2]
    ELSE IF month <= 9 THEN q[3]
    ELSE q[4]

\* The month of the device clock, whether or not the status query reported it.
StatusMonthAssumed(statusOk, month) == month

\* month = res ? getMonth() + 1 : 1
StatusMonth(statusOk, month) == IF statusOk THEN month ELSE 1

\* The value calculateFallbackDuration stores in nextChargingDurationSeconds.
calculateFallbackDuration(statusOk, month, q) ==
    RoundDiv(FallbackHours(StatusMonth(statusOk, month), q) * 3600, 1)

\* The span of the charging window, in seconds.
WindowDurationSeconds(windowStartSeconds, windowEndSeconds) ==
    IF windowStartSeconds > windowEndSeconds
    THEN (24 * 3600 - windowStartSeconds) + windowEndSeconds
    ELSE windowEndSeconds - windowStartSeconds

DynamicStartSeconds(windowEndSeconds, duration) ==
    JsRem(windowEndSeconds - duration + 24 * 3600, 24 * 3600)

StartIsInWindow(start, windowStartSeconds, windowEndSeconds) ==
    IF windowStartSeconds > windowEndSeconds
    THEN start >= windowStartSeconds \/ start < windowEndSeconds
    ELSE start >= windowStartSeconds /\ start < windowEndSeconds

\* v4.2: the duration and the start scheduleCharging arrives at, from the
\* required duration and the window.
BackwardSchedule42(required, window) ==
    LET we == timeToSeconds(window.end)
        ws == timeToSeconds(window.start)
        span == WindowDurationSeconds(ws, we)
        capped == IF required > span THEN span ELSE required
        start == DynamicStartSeconds(we, capped)
    IN  IF ~StartIsInWindow(start, ws, we) /\ span > 0
        THEN [duration |-> span, start |-> ws]
        ELSE [duration |-> capped, start |-> start]

\* v5.0: the start scheduleCharging computes in the DeleteAll callback.
BackwardSchedule50(duration, window) ==
    [duration |-> duration,
     start |-> DynamicStartSeconds(timeToSeconds(window.end), duration)]

\* The hour and minute fields of the cron timespec "0 m h * * *".
CronOf(startSeconds) == secondsToTime(startSeconds)

\* How often forEach visits switch s.
Visits(ids, s) == Cardinality({ i \in DOMAIN ids : ids[i] = s })

\* ------------------------------------------------------------------ state
VARIABLES
    CONFIG,                       \* the configuration, with the version run
    started,                      \* initializeTimers has run
    day, now,                     \* device clock: day, index into ClockTimes
    hasRunToday,
    nextChargingDurationSeconds,
    lastAvgTemp,
    startupCheck,                 \* the status query of the startup dailyCheck is pending
    scriptSchedule,               \* v4.2: the Schedule.Create of Script.Start
    nCycles,                      \* decision cycles started so far
    cyc,                          \* the decision cycles, 1 .. MaxCycles
    store,                        \* the device's timed-action store
    ticks,                        \* dailyCheck callbacks in the current minute
    regular,                      \* every minute so far saw exactly one of them
    call                          \* a helper function called on its own: its
                                  \* arguments and, once applied, its result

vars == << CONFIG, started, day, now, hasRunToday, nextChargingDurationSeconds,
           lastAvgTemp, startupCheck, scriptSchedule, nCycles, cyc, store,
           ticks, regular, call >>

Cycles == 1 .. MaxCycles
ZeroPerSwitch == [s \in AllSwitches |-> 0]

NoCycle ==
    [ pc |-> "none", day |-> 0,
      fetch |-> "none", source |-> "none", statusOk |-> FALSE, month |-> 0,
      avg |-> NoTemp, calc |-> NoDuration,
      list |-> "none",
      delIssued |-> 0, delOk |-> 0, delFail |-> 0,
      crIssued |-> ZeroPerSwitch, crOk |-> ZeroPerSwitch,
      crFail |-> ZeroPerSwitch, errLogged |-> ZeroPerSwitch,
      final |-> NoDuration,
      crStart |-> << >>, crDur |-> 0, crAvg |-> NoTemp,
      outcome |-> "none" ]

ScriptStartJob ==
    [method |-> "Script.Start", sw |-> 0, at |-> CONFIG.DATA_FETCH_TIME,
     dur |-> 0, cyc |-> 0]

SwitchJob(c, s) ==
    [method |-> "Switch.Set", sw |-> s, at |-> cyc[c].crStart,
     dur |-> cyc[c].crDur, cyc |-> c]

Production == ~CONFIG.IS_TEST_MODE
Now == ClockTimes[now]

NoCall == [fn |-> "none"]

\* The script after it was loaded, before initializeTimers().
ScriptLoaded ==
    /\ CONFIG \in Configs
    /\ started = FALSE
    /\ day = 0
    /\ now \in 1 .. Len(ClockTimes)
    /\ hasRunToday = FALSE
    /\ nextChargingDurationSeconds = -1
    /\ lastAvgTemp = -999
    /\ startupCheck = FALSE
    /\ scriptSchedule = "none"
    /\ nCycles = 0
    /\ cyc = [c \in Cycles |-> NoCycle]
    /\ store = {}
    /\ ticks = 0
    /\ regular = TRUE

Init == ScriptLoaded /\ call = NoCall

\* ------------------------------------------- getWeatherAndCalculateDuration
\* The call itself: the forecast request of a new cycle is issued.
\* A finished cycle keeps its record until the next cycle starts; after that
\* only the day it ran on is kept.
Retired(r) == [NoCycle EXCEPT !.pc = "retired", !.day = r.day]

StartCycle(c) ==
    [k \in Cycles |->
        IF k = c THEN [NoCycle EXCEPT !.pc = "fetch", !.day = day]
        ELSE IF cyc[k].pc = "done" THEN Retired(cyc[k])
        ELSE cyc[k]]

\* ------------------------------------------------------- scheduleCharging
\* v5.0 scheduleCharging without the test-mode return.
ScheduleCharging50NoTestReturn(c, base, required) ==
    /\ nextChargingDurationSeconds' = required
    /\ cyc' = [cyc EXCEPT ![c] = [base EXCEPT !.pc = "list", !.list = "pending"]]

\* v5.0, called with nextChargingDurationSeconds just set to `required`:
\* returns at once in test mode, else issues Schedule.List.
ScheduleCharging50(c, base, required) ==
    /\ nextChargingDurationSeconds' = required
    /\ cyc' = [cyc EXCEPT ![c] =
                 IF CONFIG.IS_TEST_MODE
                 THEN [base EXCEPT !.pc = "done", !.outcome = "test"]
                 ELSE [base EXCEPT !.pc = "list", !.list = "pending"]]

\* v4.2: clamps the duration into the window, returns in test mode, else
\* issues for every switch a Schedule.DeleteAll (no callback) and, when the
\* duration is positive, a Schedule.Create.
ScheduleCharging42(c, base, required) ==
    LET r == BackwardSchedule42(required, CONFIG.window)
        ids == CONFIG.SWITCH_IDS
    IN  /\ nextChargingDurationSeconds' = r.duration
        /\ cyc' = [cyc EXCEPT ![c] =
                     IF CONFIG.IS_TEST_MODE
                     THEN [base EXCEPT !.pc = "done", !.final = r.duration,
                                       !.outcome = "test"]
                     ELSE IF r.duration > 0
                     THEN [base EXCEPT
                             !.pc = "calls",
                             !.delIssued = Len(ids),
                             !.crIssued = [s \in AllSwitches |-> Visits(ids, s)],
                             !.final = r.duration,
                             !.crStart = CronOf(r.start),
                             !.crDur = r.duration,
                             !.outcome = "scheduled"]
                     ELSE [base EXCEPT
                             !.pc = "calls",
                             !.delIssued = Len(ids),
                             !.final = r.duration,
                             !.outcome = "nocharge"]]

ScheduleCharging(c, base, required) ==
    IF CONFIG.version = "v50"
    THEN ScheduleCharging50(c, base, required)
    ELSE ScheduleCharging42(c, base, required)

\* ------------------------------------ the HTTP.GET callback of the forecast
\* The length check of the temperature series left out.
UsesForecastUnchecked(outcome) == outcome \in {"ok", "short"}

\* Whether the callback reaches calculateChargingDuration: no transport
\* error, status 200, a body that parses, 24 values at indices 24..47.
UsesForecast(outcome) == outcome = "ok"

\* The HTTP.GET callback.  With a usable forecast it runs
\* calculateChargingDuration(avgTemp) (lastAvgTemp exists in v5.0 only);
\* otherwise calculateFallbackDuration() issues Sys.GetStatus.
WeatherCallback(c, outcome, avgTemp) ==
    /\ cyc[c].pc = "fetch"
    /\ IF UsesForecast(outcome)
       THEN /\ lastAvgTemp' = IF CONFIG.version = "v50" THEN avgTemp
                              ELSE lastAvgTemp
            /\ ScheduleCharging(c,
                   [cyc[c] EXCEPT !.fetch = IF outcome = "ok" THEN "ok" ELSE "failed",
                                  !.source = "forecast",
                                  !.avg = avgTemp,
                                  !.calc = ChargingDurationSeconds(avgTemp)],
                   ChargingDurationSeconds(avgTemp))
       ELSE /\ cyc' = [cyc EXCEPT
                         ![c].pc = "status",
                         ![c].fetch = IF outcome = "ok" THEN "ok" ELSE "failed",
                         ![c].source = "fallback"]
            /\ UNCHANGED << nextChargingDurationSeconds, lastAvgTemp >>
    /\ UNCHANGED << call, CONFIG, started, day, now, hasRunToday, startupCheck,
                    scriptSchedule, nCycles, store, ticks, regular >>

\* The Sys.GetStatus callback of calculateFallbackDuration; `month` is the
\* month of the device clock, `statusOk` whether the query returned a result.
FallbackDurationSeconds(statusOk, month) ==
    calculateFallbackDuration(statusOk, month, CONFIG.FALLBACK_HOURS)

FallbackStatus(c, statusOk, month) ==
    /\ cyc[c].pc = "status"
    /\ ScheduleCharging(c,
           [cyc[c] EXCEPT !.statusOk = statusOk, !.month = month,
                          !.calc = FallbackDurationSeconds(statusOk, month)],
           FallbackDurationSeconds(statusOk, month))
    /\ UNCHANGED << call, CONFIG, started, day, now, hasRunToday, lastAvgTemp,
                    startupCheck, scriptSchedule, nCycles, store, ticks, regular >>

\* ------------------------------------------ the calls to the action store
PendingCreates(r, s) == r.crIssued[s] - r.crOk[s] - r.crFail[s]
PendingDeletes(r) == r.delIssued - r.delOk - r.delFail
NothingPending(r) ==
    /\ PendingDeletes(r) = 0
    /\ \A s \in AllSwitches : PendingCreates(r, s) = 0

\* A cycle that is never marked as ended.
SettleNever(r) == r

\* The record of a cycle after one of its calls completed.
Settle(r) == IF NothingPending(r) THEN [r EXCEPT !.pc = "done"] ELSE r

\* A Schedule.List callback that goes on to Schedule.DeleteAll after a failure.
ListCallbackIgnoringError(c, ok) ==
    /\ cyc[c].pc = "list"
    /\ cyc' = [cyc EXCEPT ![c] =
                 [@ EXCEPT !.pc = "delete",
                           !.list = IF ok THEN "ok" ELSE "fail",
                           !.delIssued = 1]]
    /\ UNCHANGED << call, CONFIG, started, day, now, hasRunToday,
                    nextChargingDurationSeconds, lastAvgTemp, startupCheck,
                    scriptSchedule, nCycles, store, ticks, regular >>

\* v5.0: the Schedule.List callback.
ListCallback(c, ok) ==
    /\ cyc[c].pc = "list"
    /\ cyc' = [cyc EXCEPT ![c] =
                 IF ok
                 THEN [@ EXCEPT !.pc = "delete", !.list = "ok", !.delIssued = 1]
                 ELSE [@ EXCEPT !.pc = "done", !.list = "fail",
                                !.outcome = "listfail"]]
    /\ UNCHANGED << call, CONFIG, started, day, now, hasRunToday,
                    nextChargingDurationSeconds, lastAvgTemp, startupCheck,
                    scriptSchedule, nCycles, store, ticks, regular >>

\* v5.0: what the Schedule.DeleteAll callback does after a successful delete.
AfterDelete50(r) ==
    IF nextChargingDurationSeconds <= 0
    THEN [r EXCEPT !.pc = "done", !.delOk = 1,
                   !.final = nextChargingDurationSeconds,
                   !.crAvg = lastAvgTemp,
                   !.outcome = "nocharge"]
    ELSE LET b == BackwardSchedule50(nextChargingDurationSeconds, CONFIG.window)
         IN  [r EXCEPT !.pc = "create", !.delOk = 1,
                       !.crIssued = [s \in AllSwitches |->
                                        Visits(CONFIG.SWITCH_IDS, s)],
                       !.final = nextChargingDurationSeconds,
                       !.crStart = CronOf(b.start),
                       !.crDur = b.duration,
                       !.crAvg = lastAvgTemp,
                       !.outcome = "scheduled"]

\* v5.0: Schedule.DeleteAll completes and its callback runs.
DeleteCallback(c, ok) ==
    /\ cyc[c].pc = "delete"
    /\ store' = IF ok THEN {} ELSE store
    /\ cyc' = [cyc EXCEPT ![c] =
                 IF ok
                 THEN AfterDelete50(@)
                 ELSE [@ EXCEPT !.pc = "done", !.delFail = 1,
                                !.outcome = "delfail"]]
    /\ UNCHANGED << call, CONFIG, started, day, now, hasRunToday,
                    nextChargingDurationSeconds, lastAvgTemp, startupCheck,
                    scriptSchedule, nCycles, ticks, regular >>

\* v4.2: one of the Schedule.DeleteAll calls completes; nothing waits for it.
DeleteDone42(c, ok) ==
    /\ cyc[c].pc = "calls"
    /\ PendingDeletes(cyc[c]) > 0
    /\ store' = IF ok THEN {} ELSE store
    /\ cyc' = [cyc EXCEPT ![c] =
                 Settle(IF ok THEN [@ EXCEPT !.delOk = @ + 1]
                              ELSE [@ EXCEPT !.delFail = @ + 1])]
    /\ UNCHANGED << call, CONFIG, started, day, now, hasRunToday,
                    nextChargingDurationSeconds, lastAvgTemp, startupCheck,
                    scriptSchedule, nCycles, ticks, regular >>

\* A failure callback that counts the failure and logs nothing.
CreateFailedSilent(r, s) == [r EXCEPT !.crFail[s] = @ + 1]

\* The callback of a failed Schedule.Create: v5.0 logs the error (and hands
\* it to sendTelegramNotification), v4.2 only hands it to
\* sendTelegramNotification, which returns at once without a bot token.
CreateFailed(r, s) ==
    IF CONFIG.version = "v50"
    THEN [r EXCEPT !.crFail[s] = @ + 1, !.errLogged[s] = @ + 1]
    ELSE [r EXCEPT !.crFail[s] = @ + 1]

\* A Schedule.Create for switch s completes and its callback runs.
CreateCallback(c, s, ok) ==
    /\ cyc[c].pc \in {"create", "calls"}
    /\ PendingCreates(cyc[c], s) > 0
    /\ store' = IF ok THEN store \cup {SwitchJob(c, s)} ELSE store
    /\ cyc' = [cyc EXCEPT ![c] =
                 Settle(IF ok THEN [@ EXCEPT !.crOk[s] = @ + 1]
                              ELSE CreateFailed(@, s))]
    /\ UNCHANGED << call, CONFIG, started, day, now, hasRunToday,
                    nextChargingDurationSeconds, lastAvgTemp, startupCheck,
                    scriptSchedule, nCycles, ticks, regular >>

\* v4.2: the Schedule.Create of the daily Script.Start completes.
ScriptScheduleDone(ok) ==
    /\ scriptSchedule = "pending"
    /\ scriptSchedule' = IF ok THEN "created" ELSE "failed"
    /\ store' = IF ok THEN store \cup {ScriptStartJob} ELSE store
    /\ UNCHANGED << call, CONFIG, started, day, now, hasRunToday,
                    nextChargingDurationSeconds, lastAvgTemp, startupCheck,
                    nCycles, cyc, ticks, regular >>

\* ------------------------------------------------------------- dailyCheck
\* The trigger without its !hasRunToday guard.
TriggerIgnoringFlag(currentTime, flag) == currentTime = CONFIG.DATA_FETCH_TIME

\* currentTime === CONFIG.DATA_FETCH_TIME && !hasRunToday
TriggerReached(currentTime, flag) ==
    currentTime = CONFIG.DATA_FETCH_TIME /\ ~flag

\* currentTime === "00:01" with hasRunToday set
ResetReached(currentTime, flag) == currentTime = ResetTime /\ flag

\* hasRunToday when the callback returns.
FlagAfterCheck(currentTime, flag) ==
    LET afterTrigger == IF TriggerReached(currentTime, flag) THEN TRUE ELSE flag
    IN  IF ResetReached(currentTime, afterTrigger) THEN FALSE ELSE afterTrigger

\* The Sys.GetStatus callback of dailyCheck, of the startup check or of a
\* timer tick; hasTime is whether the result carries a time.
DailyCheck(startup, hasTime) ==
    /\ started /\ Production /\ CONFIG.version = "v50"
    /\ IF startup THEN startupCheck ELSE TRUE
    /\ ticks < MaxTicksPerMinute
    /\ ticks' = ticks + 1
    /\ startupCheck' = IF startup THEN FALSE ELSE startupCheck
    /\ IF hasTime /\ TriggerReached(Now, hasRunToday)
       THEN /\ nCycles < MaxCycles
            /\ nCycles' = nCycles + 1
            /\ cyc' = StartCycle(nCycles + 1)
       ELSE UNCHANGED << nCycles, cyc >>
    /\ hasRunToday' = IF hasTime THEN FlagAfterCheck(Now, hasRunToday)
                      ELSE hasRunToday
    /\ UNCHANGED << call, CONFIG, started, day, now, nextChargingDurationSeconds,
                    lastAvgTemp, scriptSchedule, store, regular >>

\* --------------------------------------------------------- initializeTimers
InitializeTimers ==
    /\ ~started
    /\ started' = TRUE
    /\ IF CONFIG.version = "v50" /\ Production
       THEN /\ startupCheck' = TRUE
            /\ UNCHANGED << nCycles, cyc, scriptSchedule >>
       ELSE /\ nCycles' = nCycles + 1
            /\ cyc' = StartCycle(nCycles + 1)
            /\ scriptSchedule' = IF Production THEN "pending" ELSE scriptSchedule
            /\ UNCHANGED startupCheck
    /\ UNCHANGED << call, CONFIG, day, now, hasRunToday, nextChargingDurationSeconds,
                    lastAvgTemp, store, ticks, regular >>

\* Test mode: the repeating timer calls getWeatherAndCalculateDuration.
TestTimer ==
    /\ started /\ CONFIG.IS_TEST_MODE
    /\ nCycles < MaxCycles
    /\ nCycles' = nCycles + 1
    /\ cyc' = StartCycle(nCycles + 1)
    /\ UNCHANGED << call, CONFIG, started, day, now, hasRunToday,
                    nextChargingDurationSeconds, lastAvgTemp, startupCheck,
                    scriptSchedule, store, ticks, regular >>

\* ------------------------------------------------------------ device clock
AdvanceClock ==
    /\ started /\ Production
    /\ IF now < Len(ClockTimes)
       THEN now' = now + 1 /\ day' = day
       ELSE day < MaxDay /\ now' = 1 /\ day' = day + 1
    /\ ticks' = 0
    /\ regular' = IF CONFIG.version = "v50" THEN regular /\ ticks = 1 ELSE regular
    /\ UNCHANGED << call, CONFIG, started, hasRunToday, nextChargingDurationSeconds,
                    lastAvgTemp, startupCheck, scriptSchedule, nCycles, cyc,
                    store >>

\* ------------------------------------------------------------------- Next
Next ==
    \/ InitializeTimers
    \/ TestTimer
    \/ AdvanceClock
    \/ \E startup \in BOOLEAN, hasTime \in BOOLEAN : DailyCheck(startup, hasTime)
    \/ \E c \in Cycles, o \in FetchOutcomes, t \in Temps : WeatherCallback(c, o, t)
    \/ \E c \in Cycles, ok \in BOOLEAN, m \in Months : FallbackStatus(c, ok, m)
    \/ \E c \in Cycles, ok \in BOOLEAN : ListCallback(c, ok)
    \/ \E c \in Cycles, ok \in BOOLEAN : DeleteCallback(c, ok)
    \/ \E c \in Cycles, ok \in BOOLEAN : DeleteDone42(c, ok)
    \/ \E c \in Cycles, s \in AllSwitches, ok \in BOOLEAN : CreateCallback(c, s, ok)
    \/ \E ok \in BOOLEAN : ScriptScheduleDone(ok)

Spec == Init /\ [][Next]_vars

\* Every outbound call of every cycle eventually completes, with success or
\* failure: each pending callback eventually runs.
CallsComplete ==
    \A c \in Cycles :
        /\ WF_vars(\E o \in FetchOutcomes, t \in Temps : WeatherCallback(c, o, t))
        /\ WF_vars(\E ok \in BOOLEAN, m \in Months : FallbackStatus(c, ok, m))
        /\ WF_vars(\E ok \in BOOLEAN : ListCallback(c, ok))
        /\ WF_vars(\E ok \in BOOLEAN : DeleteCallback(c, ok))
        /\ WF_vars(\E ok \in BOOLEAN : DeleteDone42(c, ok))
        /\ WF_vars(\E s \in AllSwitches, ok \in BOOLEAN : CreateCallback(c, s, ok))

\* The configurations the liveness check runs: both versions in production
\* mode (v5.0 with one switch, v4.2 with two), and both in test mode.
FairConfigs ==
    { Config("v50", FALSE, <<0>>, DayWindow, DefaultFetchTime),
      Config("v42", FALSE, <<0, 1>>, DefaultWindow, DefaultFetchTime),
      Config("v50", TRUE, <<0>>, DefaultWindow, DefaultFetchTime),
      Config("v42", TRUE, <<0>>, DefaultWindow, DefaultFetchTime) }

FairInit == Init /\ CONFIG \in FairConfigs

FairSpec == FairInit /\ [][Next]_vars /\ CallsComplete

\* ------------------------------------- the helper functions on their own
\* calculateChargingDuration, the month cascade of calculateFallbackDuration
\* and the backward scheduler of v4.2 scheduleCharging, each applied once to
\* arguments drawn from the sets below; the script itself stays as loaded.
MaxAbsTemp == 2000
CurveTemps == (0 - MaxAbsTemp) .. MaxAbsTemp
CurveStartTemps == { 1000, 1500, 1800 }
CurveSlopes == { 1, 5, 12 }
CurveMaxHours == { 0, 3, 8 }

MaxHours == 12
CalendarMonths == 1 .. 12
FallbackTables ==
    { DefaultFallbackHours, << 1, 2, 3, 4 >>, << MaxHours, 0, 0, MaxHours >> }

\* Window ends and starts, and the step of the durations tried.
WindowTimes == { << h, m >> : h \in { 0, 1, 5, 6, 12, 22, 23 }, m \in { 0, 30 } }
DurationStep == 1800

CurveCalls ==
    { [ fn |-> "calculateChargingDuration", args |-> << t, st, sl, mh >>,
        done |-> FALSE, result |-> 0 ] :
      t \in CurveTemps, st \in CurveStartTemps, sl \in CurveSlopes,
      mh \in CurveMaxHours }

FallbackCalls ==
    { [ fn |-> "calculateFallbackDuration", args |-> << ok, m, q >>,
        done |-> FALSE, result |-> 0 ] :
      ok \in BOOLEAN, m \in CalendarMonths, q \in FallbackTables }

WindowsTried ==
    { [start |-> ws, end |-> we] : ws \in WindowTimes, we \in WindowTimes }

BackwardCalls ==
    { [ fn |-> "scheduleCharging", args |-> << d, w >>,
        done |-> FALSE, result |-> 0 ] :
      d \in { k * DurationStep : k \in 0 .. (DaySeconds \div DurationStep) },
      w \in WindowsTried }

FnInit ==
    /\ ScriptLoaded
    /\ CONFIG = Config("v42", TRUE, << 0 >>, DefaultWindow, DefaultFetchTime)
    /\ now = 1
    /\ call \in CurveCalls \cup FallbackCalls \cup BackwardCalls

Returned(value) ==
    /\ ~call.done
    /\ call' = [call EXCEPT !.done = TRUE, !.result = value]
    /\ UNCHANGED << CONFIG, started, day, now, hasRunToday,
                    nextChargingDurationSeconds, lastAvgTemp, startupCheck,
                    scriptSchedule, nCycles, cyc, store, ticks, regular >>

ApplyCurve ==
    /\ call.fn = "calculateChargingDuration"
    /\ Returned(calculateChargingDuration(call.args[1], call.args[2],
                                          call.args[3], call.args[4]))

ApplyFallback ==
    /\ call.fn = "calculateFallbackDuration"
    /\ Returned(calculateFallbackDuration(call.args[1], call.args[2],
                                          call.args[3]))

ApplyBackward ==
    /\ call.fn = "scheduleCharging"
    /\ Returned(BackwardSchedule42(call.args[1], call.args[2]))

FnNext == ApplyCurve \/ ApplyFallback \/ ApplyBackward

FnSpec == FnInit /\ [][FnNext]_vars

\* ================================================================ claims
Days == 0 .. MaxDay
CyclesStartedOn(d) ==
    Cardinality({ c \in Cycles : cyc[c].pc # "none" /\ cyc[c].day = d })
CreateIssued(c) == \E s \in AllSwitches : cyc[c].crIssued[s] > 0
WindowStart == timeToSeconds(CONFIG.window.start)
WindowEnd == timeToSeconds(CONFIG.window.end)
WindowSpan == WindowDurationSeconds(WindowStart, WindowEnd)

\* C1: in production mode dailyCheck starts at most one decision cycle per
\* calendar day, whatever ticks arrive.
C1_AtMostOneCyclePerDay ==
    Production => \A d \in Days : CyclesStartedOn(d) <= 1

\* C2: a Schedule.Create is issued only once the cycle's Schedule.DeleteAll
\* has completed successfully, and not at all when the DeleteAll failed.
C2_CreateOnlyAfterDelete ==
    /\ [][ \A c \in Cycles, s \in AllSwitches :
             cyc'[c].crIssued[s] > cyc[c].crIssued[s]
                => /\ cyc'[c].delIssued > 0
                   /\ cyc'[c].delOk = cyc'[c].delIssued ]_vars
    /\ [](\A c \in Cycles : cyc[c].delFail > 0 => ~CreateIssued(c))

\* C3: a cycle whose computed duration is 0 seconds ends with final duration
\* 0 and issues no Schedule.Create.
C3_ZeroDurationSchedulesNothing ==
    \A c \in Cycles :
        cyc[c].calc = 0
            => /\ ~CreateIssued(c)
               /\ cyc[c].final \in {NoDuration, 0}

\* C4: the action passed to Schedule.Create lasts no longer than the window
\* span and starts inside the window; a required duration above the span
\* yields the span, started at the window start.
C4_CreateInsideWindow ==
    \A c \in Cycles :
        CreateIssued(c)
            => /\ cyc[c].crDur <= WindowSpan
               /\ StartIsInWindow(timeToSeconds(cyc[c].crStart),
                                  WindowStart, WindowEnd)
               /\ cyc[c].calc > WindowSpan
                     => /\ cyc[c].crDur = WindowSpan
                        /\ cyc[c].crStart = CONFIG.window.start

\* C5: the start encoded in the cron timespec plus the on-duration is the
\* window end, modulo a day.
C5_EndsAtWindowEnd ==
    \A c \in Cycles :
        (CreateIssued(c) /\ cyc[c].crDur > 0)
            => (timeToSeconds(cyc[c].crStart) + cyc[c].crDur) % DaySeconds
                  = WindowEnd

\* C6: with one tick per minute, after a cycle has run on day D the flag is
\* reset at 00:01 of day D+1 and exactly one cycle runs at DATA_FETCH_TIME
\* of day D+1, also when the status query of a tick returns no time.
C6_ResetAndRunNextDay ==
    ( /\ Production /\ CONFIG.version = "v50"
      /\ regular /\ ticks = 1
      /\ day > 0 /\ CyclesStartedOn(day - 1) >= 1 )
        => /\ Now = ResetTime => ~hasRunToday
           /\ Now = CONFIG.DATA_FETCH_TIME => CyclesStartedOn(day) = 1

Configured(s) == \E i \in DOMAIN CONFIG.SWITCH_IDS : CONFIG.SWITCH_IDS[i] = s

\* C8: (v5.0) after a successful delete with a positive duration, exactly one
\* Schedule.Create is issued for every configured switch; a failed creation
\* is logged once, changes no stored action and no other switch's attempt.
C8_OneCreatePerSwitch ==
    /\ [](CONFIG.version = "v50" =>
            \A c \in Cycles :
                (cyc[c].delOk = 1 /\ cyc[c].final > 0)
                    => \A s \in AllSwitches :
                          /\ cyc[c].crIssued[s] = IF Configured(s) THEN 1 ELSE 0
                          /\ cyc[c].errLogged[s] = cyc[c].crFail[s])
    /\ [][ CONFIG.version = "v50" =>
             \A c \in Cycles, s \in AllSwitches :
                 cyc'[c].crFail[s] > cyc[c].crFail[s]
                    => /\ store' = store
                       /\ \A t \in AllSwitches \ {s} :
                             /\ cyc'[c].crIssued[t] = cyc[c].crIssued[t]
                             /\ cyc'[c].crOk[t] = cyc[c].crOk[t]
                             /\ cyc'[c].crFail[t] = cyc[c].crFail[t] ]_vars

\* Two switches: the creation for switch 1 failed, the one for switch 0
\* succeeded and its action is stored.
C8_Witness ==
    /\ CONFIG.version = "v50"
    /\ \E c \in Cycles :
          /\ cyc[c].pc = "done"
          /\ cyc[c].crFail[1] = 1
          /\ cyc[c].crOk[0] = 1
          /\ cyc[c].errLogged[1] = 1
          /\ SwitchJob(c, 0) \in store

QuarterHours == CONFIG.FALLBACK_HOURS
QuarterOf(month) == ((month - 1) \div 3) + 1

\* The cycle went on to scheduleCharging.
Reconciling(c) ==
    /\ cyc[c].pc \notin {"fetch", "status"}
    /\ (Production /\ CONFIG.version = "v50") => cyc[c].list # "none"
    /\ (Production /\ CONFIG.version = "v42") => cyc[c].delIssued > 0

FallbackUsed(c, month) ==
    /\ cyc[c].source = "fallback"
    /\ cyc[c].calc # NoDuration
          => /\ cyc[c].calc = QuarterHours[QuarterOf(month)] * 3600
             /\ Reconciling(c)

\* C9 as stated: a failed fetch makes the cycle use the fallback duration of
\* the current quarter and go on to reconciliation; the forecast is used only
\* with all 24 samples.
C9_FallbackOfCurrentQuarter ==
    \A c \in Cycles :
        /\ cyc[c].source = "forecast" => cyc[c].fetch = "ok"
        /\ cyc[c].fetch = "failed" => FallbackUsed(c, cyc[c].month)

\* C9 as amended: the quarter is that of the month the status query reports,
\* and the first quarter when the status query returns no result.
C9_FallbackOfReportedQuarter ==
    \A c \in Cycles :
        /\ cyc[c].source = "forecast" => cyc[c].fetch = "ok"
        /\ cyc[c].fetch = "failed"
              => FallbackUsed(c, IF cyc[c].statusOk THEN cyc[c].month ELSE 1)

\* A failed fetch in July with a failed status query: the cycle goes on with
\* the duration of the first quarter.
C9_Witness ==
    \E c \in Cycles :
        /\ cyc[c].fetch = "failed"
        /\ ~cyc[c].statusOk /\ cyc[c].month = 7
        /\ cyc[c].calc = FALLBACK_HOURS_Q1 * 3600
        /\ cyc[c].list = "ok"

\* C10: in test mode no Schedule.List, Schedule.DeleteAll or Schedule.Create
\* is issued and the timed-action store never changes.
C10_TestModeTouchesNoSchedule ==
    /\ [](CONFIG.IS_TEST_MODE =>
            /\ scriptSchedule = "none"
            /\ \A c \in Cycles :
                  /\ cyc[c].list = "none"
                  /\ cyc[c].delIssued = 0
                  /\ ~CreateIssued(c))
    /\ [][CONFIG.IS_TEST_MODE => store' = store]_vars

\* Test mode: the startup cycle and a timer cycle both ran, the second with a
\* positive duration.
C10_Witness ==
    /\ CONFIG.IS_TEST_MODE
    /\ nCycles >= 2
    /\ cyc[2].pc = "done"
    /\ cyc[2].calc > 0

\* A cycle whose asynchronous chain has not ended.
InFlight(c) == cyc[c].pc \notin {"none", "done", "retired"}

\* Every external call of cycle c was answered with success.
AllCallsSucceeded(c) ==
    /\ cyc[c].fetch = "ok"
    /\ CONFIG.version = "v50" => cyc[c].list = "ok"
    /\ cyc[c].delIssued > 0 /\ cyc[c].delOk = cyc[c].delIssued
    /\ \A s \in AllSwitches : cyc[c].crOk[s] = cyc[c].crIssued[s]

SwitchJobs == { j \in store : j.method = "Switch.Set" }
JobsOf(c) == { SwitchJob(c, s) : s \in { t \in AllSwitches : Configured(t) } }

\* C11: once the latest cycle has ended with every call successful and a
\* positive final duration, and no other cycle is in flight, the store holds
\* exactly this cycle's action for every configured switch and nothing else.
C11_StoreMatchesCycle ==
    ( /\ Production /\ nCycles > 0
      /\ cyc[nCycles].pc = "done"
      /\ AllCallsSucceeded(nCycles)
      /\ cyc[nCycles].final > 0
      /\ \A k \in Cycles : ~InFlight(k) )
        => SwitchJobs = JobsOf(nCycles)

Abs(x) == IF x < 0 THEN 0 - x ELSE x
Min(a, b) == IF a < b THEN a ELSE b

Applied(fn) == call.fn = fn /\ call.done

\* C12: for avgTemp < START_TEMP the duration is min(MAX_RUNTIME_HOURS,
\* (START_TEMP - avgTemp) * SLOPE) hours as the nearest whole number of
\* seconds, for avgTemp >= START_TEMP it is 0, and it is never negative.
C12_CurveDuration ==
    Applied("calculateChargingDuration")
        => LET avgTemp == call.args[1]
               startTemp == call.args[2]
               \* hours, in 1/1000 hour
               hours == Min(call.args[4] * 1000,
                            (startTemp - avgTemp) * call.args[3])
           IN  /\ call.result >= 0
               /\ avgTemp >= startTemp => call.result = 0
               /\ avgTemp < startTemp
                     => 2 * Abs(1000 * call.result - 3600 * hours) <= 1000

\* The shipped curve at -5 degrees C: 10 h are asked for, the cap of 8 h
\* applies.
C12_Witness ==
    /\ Applied("calculateChargingDuration")
    /\ call.args = << -500, START_TEMP, SLOPE, MAX_RUNTIME_HOURS >>
    /\ call.result = MAX_RUNTIME_HOURS * 3600

\* C13: the fallback duration is decided by the month alone and is exactly
\* one of the four constants: months 1-3 give Q1, 4-6 Q2, 7-9 Q3, 10-12 Q4.
\* The month is the one the status query reports (1 when it reports nothing).
C13_FallbackByQuarter ==
    Applied("calculateFallbackDuration")
        => LET month == IF call.args[1] THEN call.args[2] ELSE 1
               q == call.args[3]
               hours == call.result \div 3600
           IN  /\ call.result = hours * 3600
               /\ month \in 1 .. 12
               /\ month \in {1, 2, 3} => hours = q[1]
               /\ month \in {4, 5, 6} => hours = q[2]
               /\ month \in {7, 8, 9} => hours = q[3]
               /\ month \in {10, 11, 12} => hours = q[4]

\* October with four different constants: the fourth is chosen.
C13_Witness ==
    /\ Applied("calculateFallbackDuration")
    /\ call.args = << TRUE, 10, << 1, 2, 3, 4 >> >>
    /\ call.result = 4 * 3600

\* C14: within a cycle the duration is calculated only after the forecast
\* fetch has completed, Schedule.DeleteAll is issued only after the duration
\* has been calculated, and a Schedule.Create is issued only after the
\* Schedule.DeleteAll has completed.
C14_StepsInOrder ==
    \A c \in Cycles :
        /\ cyc[c].calc # NoDuration => cyc[c].fetch \in {"ok", "failed"}
        /\ cyc[c].delIssued > 0 => cyc[c].calc # NoDuration
        /\ CreateIssued(c)
              => cyc[c].delIssued > 0 /\ PendingDeletes(cyc[c]) = 0

\* C15: in production mode, when the check run once at initialization finds
\* a time of day later than DATA_FETCH_TIME, it starts a decision cycle.
C15_StartupAfterFetchTimeRuns ==
    [][ ( /\ Production
          /\ startupCheck /\ ~startupCheck'
          /\ timeToSeconds(Now) > timeToSeconds(CONFIG.DATA_FETCH_TIME) )
          => nCycles' = nCycles + 1 ]_vars

\* C16: every on-duration passed to Schedule.Create is at most
\* MAX_RUNTIME_HOURS * 3600 seconds, whichever path produced it.
C16_CreateWithinMaxRuntime ==
    \A c \in Cycles :
        CreateIssued(c) => cyc[c].crDur <= MAX_RUNTIME_HOURS * 3600

\* C17: in production mode no decision cycle starts while the asynchronous
\* chain of another cycle is still pending.
C17_NoCycleStartsMidCycle ==
    [][ (Production /\ nCycles' = nCycles + 1)
          => \A k \in Cycles : ~InFlight(k) ]_vars

\* C18: (v4.2) for a window with windowStart # windowEnd and a duration d
\* with 0 <= d <= span, the candidate start (windowEnd - d + 86400) mod 86400
\* passes the in-window validation: the scheduler keeps d and that start and
\* does not clamp to (windowStart, span).
C18_CandidateStartIsValid ==
    Applied("scheduleCharging")
        => LET d == call.args[1]
               ws == timeToSeconds(call.args[2].start)
               we == timeToSeconds(call.args[2].end)
           IN  (ws # we /\ d <= WindowDurationSeconds(ws, we))
                  => /\ call.result.duration = d
                     /\ call.result.start = (we - d + DaySeconds) % DaySeconds

\* C19: a cycle whose Schedule.List failed is aborted: it issues neither
\* Schedule.DeleteAll nor Schedule.Create, and it changes no stored action:
\* the failing callback leaves the store as it is, none of the cycle's
\* actions is ever stored, and the store changes only when a DeleteAll or a
\* Create (of another cycle, or the initial Script.Start job) completes.
C19_ListFailureAborts ==
    /\ [](\A c \in Cycles :
            cyc[c].list = "fail"
                => /\ cyc[c].pc = "done"
                   /\ cyc[c].outcome = "listfail"
                   /\ cyc[c].delIssued = 0
                   /\ ~CreateIssued(c)
                   /\ \A j \in store : j.cyc # c)
    /\ [][ /\ \A c \in Cycles :
                 (cyc'[c].list = "fail" /\ cyc[c].list # "fail")
                     => store' = store
           /\ store' # store
                 => \/ scriptSchedule' # scriptSchedule
                    \/ \E c \in Cycles :
                          /\ cyc[c].list # "fail"
                          /\ \/ cyc'[c].delOk > cyc[c].delOk
                             \/ \E sw \in AllSwitches :
                                   cyc'[c].crOk[sw] > cyc[c].crOk[sw] ]_vars

\* The Schedule.List of a later cycle failed; the action stored by the
\* cycle before it is still in place.
C19_Witness ==
    /\ nCycles = 2
    /\ cyc[2].list = "fail" /\ cyc[2].pc = "done"
    /\ cyc[1].pc = "retired"
    /\ \E j \in store : j.cyc = 1 /\ j.method = "Switch.Set"

\* C20: on the fallback path, when the status query returns no result, the
\* month is taken as 1, the Q1 fallback duration is used and the cycle goes
\* on to schedule reconciliation (where, no other cycle overlapping, the
\* delete callback reads that duration).
C20_NoStatusMeansJanuary ==
    \A c \in Cycles :
        (cyc[c].source = "fallback" /\ cyc[c].pc # "status" /\ ~cyc[c].statusOk)
            => /\ cyc[c].calc = CONFIG.FALLBACK_HOURS[1] * 3600
               /\ Reconciling(c)
               /\ ( /\ Production /\ CONFIG.version = "v50"
                     /\ cyc[c].delOk > 0
                     /\ \A k \in Cycles \ {c} :
                           cyc[k].pc \in {"none", "retired"} )
                     => cyc[c].final = cyc[c].calc

\* July, no status result: the cycle ran to its end and the action of 6 h
\* (the first quarter) is stored.
C20_Witness ==
    \E c \in Cycles :
        /\ cyc[c].source = "fallback" /\ ~cyc[c].statusOk /\ cyc[c].month = 7
        /\ cyc[c].pc = "done"
        /\ \E j \in store :
              j.cyc = c /\ j.method = "Switch.Set"
                 /\ j.dur = FALLBACK_HOURS_Q1 * 3600

\* The position of a cycle in its chain of calls.
Rank(pc) ==
    CASE pc = "none" -> 0
      [] pc = "fetch" -> 1
      [] pc = "status" -> 2
      [] pc = "list" -> 3
      [] pc = "delete" -> 4
      [] pc \in {"create", "calls"} -> 5
      [] pc = "done" -> 6
      [] pc = "retired" -> 7

Ended(c) == cyc[c].pc \in {"done", "retired"}

\* The outcome of an ended cycle is one of the terminal ones, and with
\* "scheduled" every configured switch has its one creation answered.
TerminalOutcome(c) ==
    /\ cyc[c].outcome \in {"scheduled", "nocharge", "listfail", "delfail", "test"}
    /\ cyc[c].outcome = "scheduled"
          => \A s \in AllSwitches :
                cyc[c].crOk[s] + cyc[c].crFail[s] = IF Configured(s) THEN 1 ELSE 0

\* C21: provided every outbound call eventually completes, every started
\* cycle ends, with a terminal outcome; a cycle only moves forward through
\* fetch, status query, list, delete and create, so that it issues each of
\* these calls at most once (v5.0: one DeleteAll, one Create per switch).
C21_EveryCycleEnds ==
    /\ \A c \in Cycles : (cyc[c].pc = "fetch") ~> Ended(c)
    /\ [](\A c \in Cycles :
            /\ cyc[c].pc = "done" => TerminalOutcome(c)
            /\ CONFIG.version = "v50"
                  => /\ cyc[c].delIssued <= 1
                     /\ \A s \in AllSwitches : cyc[c].crIssued[s] <= 1)
    /\ [][ \A c \in Cycles :
             cyc'[c].pc # cyc[c].pc => Rank(cyc'[c].pc) > Rank(cyc[c].pc) ]_vars

\* v5.0: a second cycle, on the fallback path, has ended with its one
\* creation reported failed.
C21_Witness ==
    /\ CONFIG.version = "v50"
    /\ cyc[2].pc = "done" /\ cyc[2].outcome = "scheduled"
    /\ cyc[2].source = "fallback"
    /\ cyc[2].crFail[0] = 1

\* C22: when the callback of a dailyCheck tick that started a decision cycle
\* returns, hasRunToday is true.
C22_FlagSetAfterTrigger ==
    [][ (ticks' = ticks + 1 /\ nCycles' = nCycles + 1) => hasRunToday' ]_vars

\* C23: (v5.0) what the delete callback of a cycle consumes was produced by
\* that cycle: the duration it reads and passes to Schedule.Create is the
\* one the cycle calculated, and the average temperature it reports is the
\* one of the cycle's own forecast, never the initial value or another
\* cycle's.
C23_DecisionOfSameCycle ==
    \A c \in Cycles :
        (CONFIG.version = "v50" /\ cyc[c].delOk > 0)
            => /\ cyc[c].final = cyc[c].calc
               /\ CreateIssued(c) => cyc[c].crDur = cyc[c].calc
               /\ cyc[c].crAvg # NoTemp
               /\ cyc[c].crAvg = cyc[c].avg

\* C24: (v4.2, production mode) once the Script.Start schedule of
\* initializeTimers has been created and the cycle started by the same
\* initialization has ended, that schedule is still in the store.
C24_ScriptStartJobSurvives ==
    ( /\ CONFIG.version = "v42" /\ Production
      /\ scriptSchedule = "created"
      /\ cyc[1].pc = "done" )
        => ScriptStartJob \in store

====
